---- MODULE Spec2Model ----
(***************************************************************************)
(* The daily AI-news quiz service: app/api.py (trigger endpoint, pipeline  *)
(* body, notifier) and quiz_generator.py (scrape, generation, shuffle,     *)
(* persistence).  A run is one execution of generate_daily_quiz; the only  *)
(* state shared between runs is the table daily_genai_quiz.                *)
(***************************************************************************)
EXTENDS Integers, Sequences, FiniteSets, TLC

\* ---------------------------------------------------------------- bounds
MaxRuns == 2
NumWorkers == 2
MaxQuestions == 2
NumOptions == 2

Runs == 1..MaxRuns
Workers == 1..NumWorkers

\* ------------------------------------------------------------- data model
None == "None"
NewsList == "news_list"
EmptyMeta == "{}"

\* The order in which the model lists the options of a question.
ModelOptions == [i \in 1..NumOptions |-> i]

Perms == {p \in [1..NumOptions -> 1..NumOptions] :
            \A i, j \in 1..NumOptions : i # j => p[i] # p[j]}

\* QuizQuestion as parsed: options is a reference to a list object.
QuizQuestion(i) == [question |-> i, options |-> i, metadata |-> EmptyMeta]

\* random.shuffle(x): x becomes a permutation of itself, in place.
ShuffleWithRepeats(opts, p) == [i \in 1..Len(opts) |-> opts[p[1]]]
Shuffle(opts, p) == [i \in 1..Len(opts) |-> opts[p[i]]]

\* mcq.model_copy(): deep=False, every field value is shared with the
\* original, so the copy's options is the original's list object.
ModelCopy(q) == [question |-> q.question, options |-> q.options, metadata |-> q.metadata]

\* shuffle_options(list): copies each question and shuffles the copy's
\* options in place; returns the copies and the heap after the shuffles.
\* Its only caller passes quiz_result.questions, a list, so the ValueError
\* branch for other input types is never taken.
ShuffleOptions(questions, heap, perms) ==
  LET copies == [i \in 1..Len(questions) |-> ModelCopy(questions[i])]
  IN  [shuffled |-> copies,
       heap |-> [ref \in DOMAIN heap |->
                   IF \E i \in 1..Len(copies) : copies[i].options = ref
                   THEN Shuffle(heap[ref],
                                perms[CHOOSE i \in 1..Len(copies) : copies[i].options = ref])
                   ELSE heap[ref]]]

\* question.model_dump(): the field values, lists by value.
ModelDump(q, heap) == [question |-> q.question, options |-> heap[q.options], metadata |-> q.metadata]

DumpAll(questions, heap) == [i \in 1..Len(questions) |-> ModelDump(questions[i], heap)]

\* question.metadata = {"content": content}
MetadataKeepsPrior(prior, content) == prior
Metadata(prior, content) == content

\* client.table("daily_genai_quiz").insert(row).execute()
InsertUnique(tbl, row) == IF \E i \in 1..Len(tbl) : tbl[i] = row THEN tbl ELSE Append(tbl, row)
Insert(tbl, row) == Append(tbl, row)

\* The per-row try/except of insert_quiz_questions: does the loop go on
\* after an insert with this outcome?
RowGuardAborts(ok) == ok
RowGuard(ok) == TRUE

\* The try/except of generate_ai_news_quiz: which failing steps it covers.
\* "setup" (API key into the environment, client and prompt construction)
\* runs before the try.
GenCatchesModelOnly(kind) == kind = "model"
GenCatches(kind) == kind \in {"model", "parse", "persist", "row"}

\* The try/except of send_email_notification covers the whole body.
NotifierRaises(smtp) == smtp = "ok"
NotifierCatches(smtp) == TRUE

\* The try/except of generate_daily_quiz covers every stage.
Handles(stage) == TRUE

\* The stages of generate_daily_quiz, in program order.
NotifyFirstOrder == <<"scrape", "notify", "generate">>
DailyQuizOrder == <<"scrape", "generate", "notify">>

StageAfter(s) ==
  LET i == CHOOSE j \in 1..Len(DailyQuizOrder) : DailyQuizOrder[j] = s
  IN  IF i < Len(DailyQuizOrder) THEN DailyQuizOrder[i + 1] ELSE "done"

\* 'Success' if generated_quiz else 'Failed'
ReportStatusByRows(generated, stored) == IF stored > 0 THEN "Success" ELSE "Failed"
ReportStatus(generated, stored) == IF Len(generated) > 0 THEN "Success" ELSE "Failed"

\* return generated_quiz
ReturnValueIfSent(generated, mail) == IF mail = "sent" THEN generated ELSE <<>>
ReturnValue(generated, mail) == generated

\* What chain.invoke can do: raise, return text the parser rejects, or
\* return a well-formed list of k questions.
ModelOutcomes ==
  {[kind |-> "raised", k |-> 0], [kind |-> "malformed", k |-> 0]}
    \cup {[kind |-> "payload", k |-> n] : n \in 0..MaxQuestions}

NoNotice == [subject |-> "none", status |-> "none", count |-> 0, text |-> "none"]
Pending == [kind |-> "pending", value |-> <<>>]

\* ------------------------------------------------------------------ state
VARIABLES
  settings,        \* Settings(): which credentials the environment provides
  acks,            \* acknowledgements returned by POST /generate-quiz
  worker,          \* the server process whose event loop runs the run (0: none)
  pc,              \* position of each run
  news_content,    \* generate_daily_quiz local
  exc,             \* text of the exception being handled at the top level
  model_out,       \* what chain.invoke did
  quiz_result,     \* quiz_result.questions
  lists,           \* the option list objects of the run, by reference
  shuffled,        \* shuffled_mcq_list
  idx,             \* position of the insert loop
  attempts,        \* insert calls made: the row submitted and whether it succeeded
  table,           \* daily_genai_quiz
  generated_quiz,  \* generate_daily_quiz local: dump of what generation returned
  gen_exit,        \* how the generate_ai_news_quiz call ended
  gen_fail,        \* the step of generate_ai_news_quiz that raised
  notice,          \* the last notification composed
  mail,            \* outcome of the last send: "none", "sent", "failed"
  result,          \* how generate_daily_quiz ended and with which value
  trace            \* the steps of the run in the order they happened

vars == <<settings, acks, worker, pc, news_content, exc, model_out, quiz_result,
          lists, shuffled, idx, attempts, table, generated_quiz, gen_exit,
          gen_fail, notice, mail, result, trace>>

genVars == <<model_out, quiz_result, lists, shuffled, idx, attempts, table>>

Init ==
  /\ settings \in [openai_key : BOOLEAN, supabase : BOOLEAN]
  /\ acks = 0
  /\ worker = [r \in Runs |-> 0]
  /\ pc = [r \in Runs |-> "idle"]
  /\ news_content = [r \in Runs |-> None]
  /\ exc = [r \in Runs |-> "none"]
  /\ model_out = [r \in Runs |-> [kind |-> "pending", k |-> 0]]
  /\ quiz_result = [r \in Runs |-> <<>>]
  /\ lists = [r \in Runs |-> <<>>]
  /\ shuffled = [r \in Runs |-> <<>>]
  /\ idx = [r \in Runs |-> 0]
  /\ attempts = [r \in Runs |-> <<>>]
  /\ table = <<>>
  /\ generated_quiz = [r \in Runs |-> <<>>]
  /\ gen_exit = [r \in Runs |-> "pending"]
  /\ gen_fail = [r \in Runs |-> "none"]
  /\ notice = [r \in Runs |-> NoNotice]
  /\ mail = [r \in Runs |-> "none"]
  /\ result = [r \in Runs |-> Pending]
  /\ trace = [r \in Runs |-> <<>>]

Running(r) == pc[r] \notin {"idle", "done"}

\* ---------------------------------------------------------------- helpers
\* A stage of generate_daily_quiz completed normally with generated value g.
Finish(r, s, g, m) ==
  /\ pc' = [pc EXCEPT ![r] = StageAfter(s)]
  /\ result' = IF StageAfter(s) = "done"
               THEN [result EXCEPT ![r] = [kind |-> "returned", value |-> ReturnValue(g, m)]]
               ELSE result

\* An exception reaches the body of generate_daily_quiz from stage s.
TopRaise(r, s, text) ==
  IF Handles(s)
  THEN /\ pc' = [pc EXCEPT ![r] = "except"]
       /\ exc' = [exc EXCEPT ![r] = text]
       /\ result' = result
  ELSE /\ pc' = [pc EXCEPT ![r] = "done"]
       /\ exc' = exc
       /\ result' = [result EXCEPT ![r] = [kind |-> "raised", value |-> <<>>]]

\* generate_ai_news_quiz returns g.
GenReturn(r, g, kind) ==
  /\ generated_quiz' = [generated_quiz EXCEPT ![r] = g]
  /\ gen_exit' = [gen_exit EXCEPT ![r] = "returned"]
  /\ gen_fail' = [gen_fail EXCEPT ![r] = kind]
  /\ exc' = exc
  /\ Finish(r, "generate", g, mail[r])

\* A step of generate_ai_news_quiz raises.
GenFailure(r, kind) ==
  IF GenCatches(kind)
  THEN GenReturn(r, <<>>, kind)
  ELSE /\ generated_quiz' = generated_quiz
       /\ gen_exit' = [gen_exit EXCEPT ![r] = "raised"]
       /\ gen_fail' = [gen_fail EXCEPT ![r] = kind]
       /\ TopRaise(r, "generate", kind)

\* --------------------------------------------------------------- actions
\* POST /generate-quiz (sent by a client or by the daily cron job) handled
\* by the server process w: add_task, then the acknowledgement.  The
\* pipeline body is a coroutine that never yields (its network calls are
\* blocking), so w handles the request only when none of its runs is in
\* progress; runs overlap across server processes.
Trigger(w) ==
  /\ acks < MaxRuns
  /\ \A r \in Runs : worker[r] = w => ~Running(r)
  /\ LET r == acks + 1
     IN  /\ worker' = [worker EXCEPT ![r] = w]
         /\ pc' = [pc EXCEPT ![r] = DailyQuizOrder[1]]
  /\ acks' = acks + 1
  /\ UNCHANGED <<settings, news_content, exc, genVars, generated_quiz, gen_exit,
                 gen_fail, notice, mail, result, trace>>

\* news_content = generate_news_scrape()
Scrape(r) ==
  /\ pc[r] = "scrape"
  /\ trace' = [trace EXCEPT ![r] = Append(@, "scrape")]
  /\ \E outcome \in {"200", "non200", "raise"} :
       CASE outcome = "200" ->
              /\ news_content' = [news_content EXCEPT ![r] = NewsList]
              /\ exc' = exc
              /\ Finish(r, "scrape", generated_quiz[r], mail[r])
         [] outcome = "non200" ->
              /\ news_content' = [news_content EXCEPT ![r] = None]
              /\ exc' = exc
              /\ Finish(r, "scrape", generated_quiz[r], mail[r])
         [] OTHER ->
              /\ news_content' = news_content
              /\ TopRaise(r, "scrape", "scrape")
  /\ UNCHANGED <<settings, acks, worker, genVars, generated_quiz, gen_exit,
                 gen_fail, notice, mail>>

\* generate_ai_news_quiz, up to the try: the API key goes into os.environ,
\* the client and the prompt are built.
GenerateSetup(r) ==
  /\ pc[r] = "generate"
  /\ IF settings.openai_key
     THEN /\ pc' = [pc EXCEPT ![r] = "invoke"]
          /\ UNCHANGED <<exc, generated_quiz, gen_exit, gen_fail, result>>
     ELSE GenFailure(r, "setup")
  /\ UNCHANGED <<settings, acks, worker, news_content, genVars, notice, mail, trace>>

\* chain.invoke(...), the list coercion and the emptiness test.
Invoke(r) ==
  /\ pc[r] = "invoke"
  /\ trace' = [trace EXCEPT ![r] = Append(@, "llm")]
  /\ \E out \in ModelOutcomes :
       /\ model_out' = [model_out EXCEPT ![r] = out]
       /\ CASE out.kind = "raised" ->
                 /\ GenFailure(r, "model")
                 /\ UNCHANGED <<quiz_result, lists>>
            [] out.kind = "malformed" ->
                 /\ GenFailure(r, "parse")
                 /\ UNCHANGED <<quiz_result, lists>>
            [] OTHER ->
                 /\ quiz_result' = [quiz_result EXCEPT ![r] = [i \in 1..out.k |-> QuizQuestion(i)]]
                 /\ lists' = [lists EXCEPT ![r] = [i \in 1..out.k |-> ModelOptions]]
                 /\ IF out.k > 0
                    THEN /\ pc' = [pc EXCEPT ![r] = "persist"]
                         /\ UNCHANGED <<exc, generated_quiz, gen_exit, gen_fail, result>>
                    ELSE GenReturn(r, <<>>, "none")
  /\ UNCHANGED <<settings, acks, worker, news_content, shuffled, idx, attempts,
                 table, notice, mail>>

\* insert_quiz_questions, up to the loop: create_client, shuffle_options.
Persist(r) ==
  /\ pc[r] = "persist"
  /\ IF settings.supabase
     THEN \E perms \in [1..Len(quiz_result[r]) -> Perms] :
            LET s == ShuffleOptions(quiz_result[r], lists[r], perms)
            IN  /\ shuffled' = [shuffled EXCEPT ![r] = s.shuffled]
                /\ lists' = [lists EXCEPT ![r] = s.heap]
                /\ idx' = [idx EXCEPT ![r] = 1]
                /\ trace' = [trace EXCEPT ![r] = @ \o <<"persist", "shuffle">>]
                /\ pc' = [pc EXCEPT ![r] = "insert"]
                /\ UNCHANGED <<exc, generated_quiz, gen_exit, gen_fail, result>>
     ELSE /\ trace' = [trace EXCEPT ![r] = Append(@, "persist")]
          /\ GenFailure(r, "persist")
          /\ UNCHANGED <<shuffled, lists, idx>>
  /\ UNCHANGED <<settings, acks, worker, news_content, model_out, quiz_result,
                 attempts, table, notice, mail>>

\* One iteration of the loop of insert_quiz_questions; after the last one
\* generate_ai_news_quiz returns quiz_result.questions.
InsertRow(r) ==
  /\ pc[r] = "insert"
  /\ LET i == idx[r]
         q == [shuffled[r][i] EXCEPT !.metadata = Metadata(@, news_content[r])]
         row == ModelDump(q, lists[r])
     IN  /\ shuffled' = [shuffled EXCEPT ![r][i] = q]
         /\ trace' = [trace EXCEPT ![r] = Append(@, "insert")]
         /\ \E ok \in BOOLEAN :
              /\ table' = IF ok THEN Insert(table, row) ELSE table
              /\ attempts' = [attempts EXCEPT ![r] = Append(@, [row |-> row, ok |-> ok])]
              /\ IF ~RowGuard(ok)
                 THEN /\ idx' = idx
                      /\ GenFailure(r, "row")
                 ELSE IF i < Len(shuffled[r])
                 THEN /\ idx' = [idx EXCEPT ![r] = i + 1]
                      /\ UNCHANGED <<pc, exc, generated_quiz, gen_exit, gen_fail, result>>
                 ELSE /\ idx' = [idx EXCEPT ![r] = i + 1]
                      /\ GenReturn(r, DumpAll(quiz_result[r], lists[r]), "none")
  /\ UNCHANGED <<settings, acks, worker, news_content, model_out, quiz_result,
                 lists, notice, mail>>

\* The report is composed and send_email_notification is awaited.
Notify(r) ==
  /\ pc[r] = "notify"
  /\ trace' = [trace EXCEPT ![r] = Append(@, "mail")]
  /\ notice' = [notice EXCEPT ![r] =
        [subject |-> "Daily AI News Quiz Generation Report",
         status |-> ReportStatus(generated_quiz[r],
                                 Cardinality({j \in 1..Len(attempts[r]) : attempts[r][j].ok})),
         count |-> Len(generated_quiz[r]),
         text |-> news_content[r]]]
  /\ \E smtp \in {"ok", "fail"} :
       /\ mail' = [mail EXCEPT ![r] = IF smtp = "ok" THEN "sent" ELSE "failed"]
       /\ IF NotifierCatches(smtp)
          THEN /\ exc' = exc
               /\ Finish(r, "notify", generated_quiz[r], mail'[r])
          ELSE TopRaise(r, "notify", "smtp")
  /\ UNCHANGED <<settings, acks, worker, news_content, genVars, generated_quiz,
                 gen_exit, gen_fail>>

\* The except clause of generate_daily_quiz: error notification, return [].
Except(r) ==
  /\ pc[r] = "except"
  /\ trace' = [trace EXCEPT ![r] = Append(@, "mail")]
  /\ notice' = [notice EXCEPT ![r] =
        [subject |-> "Daily AI News Quiz Generation Error",
         status |-> "error", count |-> 0, text |-> exc[r]]]
  /\ pc' = [pc EXCEPT ![r] = "done"]
  /\ \E smtp \in {"ok", "fail"} :
       /\ mail' = [mail EXCEPT ![r] = IF smtp = "ok" THEN "sent" ELSE "failed"]
       /\ result' = [result EXCEPT ![r] =
                       IF NotifierCatches(smtp)
                       THEN [kind |-> "returned", value |-> <<>>]
                       ELSE [kind |-> "raised", value |-> <<>>]]
  /\ UNCHANGED <<settings, acks, worker, news_content, exc, genVars,
                 generated_quiz, gen_exit, gen_fail>>

Next ==
  \/ \E w \in Workers : Trigger(w)
  \/ \E r \in Runs : Scrape(r)
  \/ \E r \in Runs : GenerateSetup(r)
  \/ \E r \in Runs : Invoke(r)
  \/ \E r \in Runs : Persist(r)
  \/ \E r \in Runs : InsertRow(r)
  \/ \E r \in Runs : Notify(r)
  \/ \E r \in Runs : Except(r)

Spec == Init /\ [][Next]_vars

\* A single trigger: one run of the pipeline with nothing else going on.
TriggerOnce(w) == acks = 0 /\ Trigger(w)

NextOneRun ==
  \/ \E w \in Workers : TriggerOnce(w)
  \/ \E r \in Runs : Scrape(r)
  \/ \E r \in Runs : GenerateSetup(r)
  \/ \E r \in Runs : Invoke(r)
  \/ \E r \in Runs : Persist(r)
  \/ \E r \in Runs : InsertRow(r)
  \/ \E r \in Runs : Notify(r)
  \/ \E r \in Runs : Except(r)

SpecOneRun == Init /\ [][NextOneRun]_vars

\* ------------------------------------------------------------ vocabulary
Ids(questions) == [i \in 1..Len(questions) |-> questions[i].question]

Count(t, step) == Cardinality({j \in 1..Len(t) : t[j] = step})

OkCount(r) == Cardinality({j \in 1..Len(attempts[r]) : attempts[r][j].ok})

RECURSIVE SumOver(_, _)
SumOver(f, n) == IF n = 0 THEN 0 ELSE f[n] + SumOver(f, n - 1)

IsPermutationOf(a, b) ==
  /\ Len(a) = Len(b)
  /\ \A x \in {b[i] : i \in 1..Len(b)} :
       Cardinality({i \in 1..Len(a) : a[i] = x}) = Cardinality({i \in 1..Len(b) : b[i] = x})

WellFormed(r) == model_out[r].kind = "payload" /\ model_out[r].k >= 1

GenEnded(r) == gen_exit[r] # "pending"

\* ----------------------------------------------------------------- claims

\* C1 (as claimed): after shuffle_options has returned, every original
\* question's options are still in the order they had before the call.
C1_OriginalsKeepOrder ==
  \A r \in Runs : \A i \in 1..Len(quiz_result[r]) :
    lists[r][quiz_result[r][i].options] = ModelOptions

\* C2 (as claimed): whichever step of generate_ai_news_quiz raises, the
\* call returns an empty sequence and no exception reaches the caller.
C2_AnyFailureReturnsEmpty ==
  \A r \in Runs :
    gen_fail[r] # "none" => gen_exit[r] = "returned" /\ generated_quiz[r] = <<>>

\* C2 (amended): a failure of the model invocation, of the parse or of any
\* other step inside the try block makes the call return an empty sequence
\* with no exception reaching the caller; a failure of the setup before the
\* try block propagates to the caller.
C2_GuardedFailureReturnsEmpty ==
  \A r \in Runs :
    /\ gen_fail[r] \in {"model", "parse", "persist", "row"} =>
         /\ gen_exit[r] = "returned"
         /\ generated_quiz[r] = <<>>
         /\ exc[r] = "none"
         /\ pc[r] # "except"
    /\ gen_fail[r] = "setup" => gen_exit[r] = "raised" /\ exc[r] = "setup"

C2_Witness ==
  \E r \in Runs :
    /\ model_out[r].kind = "malformed"
    /\ gen_fail[r] = "parse"
    /\ gen_exit[r] = "returned"
    /\ pc[r] = "done"

\* C3: a batch of n questions gets exactly n insert attempts, one per
\* question in sequence order, whichever of them fail, and every row whose
\* insert succeeded is stored.
C3_EveryRowAttempted ==
  /\ \A r \in Runs :
       /\ \A j \in 1..Len(attempts[r]) :
            attempts[r][j].row.question = quiz_result[r][j].question
       /\ pc[r] = "insert" => Len(attempts[r]) = idx[r] - 1
       /\ (GenEnded(r) /\ shuffled[r] # <<>>) => Len(attempts[r]) = Len(quiz_result[r])
       /\ \A j \in 1..Len(attempts[r]) :
            attempts[r][j].ok => \E t \in 1..Len(table) : table[t] = attempts[r][j].row
  /\ Len(table) = SumOver([r \in Runs |-> OkCount(r)], MaxRuns)

C3_Witness ==
  \E r \in Runs :
    /\ GenEnded(r)
    /\ Len(attempts[r]) >= 2
    /\ ~attempts[r][1].ok
    /\ attempts[r][Len(attempts[r])].ok

\* C4: generate_daily_quiz always ends by returning; when a step other
\* than the notification raised, an error notification with the exception
\* text was attempted and the value returned is the empty list.
C4_NoErrorEscapes ==
  \A r \in Runs :
    /\ result[r].kind # "raised"
    /\ pc[r] = "done" => result[r].kind = "returned"
    /\ (pc[r] = "done" /\ (exc[r] # "none" \/ gen_exit[r] = "raised")) =>
         /\ exc[r] # "none"
         /\ notice[r].subject = "Daily AI News Quiz Generation Error"
         /\ notice[r].text = exc[r]
         /\ mail[r] # "none"
         /\ result[r].value = <<>>

C4_Witness ==
  \E r \in Runs :
    /\ pc[r] = "done"
    /\ exc[r] = "scrape"
    /\ mail[r] = "failed"
    /\ result[r] = [kind |-> "returned", value |-> <<>>]

AllStored(r) ==
  /\ WellFormed(r)
  /\ Len(attempts[r]) = model_out[r].k
  /\ \A j \in 1..Len(attempts[r]) : attempts[r][j].ok

\* C5: nothing guards against concurrent runs: every acknowledged trigger
\* started its own run, and when all runs are over with all their inserts
\* succeeded the table holds the rows of every run, duplicates included.
C5_NoRunGuard ==
  /\ acks = Cardinality({r \in Runs : pc[r] # "idle"})
  /\ (\A r \in Runs : pc[r] = "done" /\ AllStored(r)) =>
       Len(table) = SumOver([r \in Runs |-> model_out[r].k], MaxRuns)

C5_Witness ==
  \E r1, r2 \in Runs :
    /\ r1 # r2
    /\ Running(r1) /\ Running(r2)
    /\ OkCount(r1) >= 1 /\ OkCount(r2) >= 1
    /\ attempts[r1][1].row = attempts[r2][1].row

\* C6 (as claimed): whenever the model returned k >= 1 well-formed
\* questions, the call invoked the model once, returned those k questions
\* and made one persistence call whose rows all carry the content; with
\* zero questions no persistence call was made.
C6_WellFormedReturnsAll ==
  \A r \in Runs :
    (GenEnded(r) /\ model_out[r].kind = "payload") =>
      /\ Count(trace[r], "llm") = 1
      /\ Count(trace[r], "persist") = (IF model_out[r].k >= 1 THEN 1 ELSE 0)
      /\ \A j \in 1..Len(attempts[r]) : attempts[r][j].row.metadata = news_content[r]
      /\ gen_exit[r] = "returned"
      /\ Ids(generated_quiz[r]) = [i \in 1..model_out[r].k |-> i]

\* C6 (amended): as claimed, except that the k questions are returned only
\* when the persistence call returns normally (it then submitted k rows);
\* when it raises outside its per-row guard the call returns an empty
\* sequence and no row was submitted.
C6_WellFormedReturnsAllIfPersisted ==
  \A r \in Runs :
    (GenEnded(r) /\ model_out[r].kind = "payload") =>
      /\ Count(trace[r], "llm") = 1
      /\ Count(trace[r], "persist") = (IF model_out[r].k >= 1 THEN 1 ELSE 0)
      /\ \A j \in 1..Len(attempts[r]) : attempts[r][j].row.metadata = news_content[r]
      /\ gen_exit[r] = "returned"
      /\ IF gen_fail[r] = "none"
         THEN /\ Ids(generated_quiz[r]) = [i \in 1..model_out[r].k |-> i]
              /\ Len(attempts[r]) = model_out[r].k
         ELSE /\ gen_fail[r] = "persist"
              /\ generated_quiz[r] = <<>>
              /\ attempts[r] = <<>>

C6_Witness ==
  \E r \in Runs :
    /\ GenEnded(r)
    /\ model_out[r] = [kind |-> "payload", k |-> MaxQuestions]
    /\ news_content[r] = NewsList
    /\ Len(generated_quiz[r]) = MaxQuestions
    /\ Len(attempts[r]) = MaxQuestions

SameRun(r1, r2) ==
  /\ news_content[r1] = news_content[r2]
  /\ (exc[r1] = "scrape") = (exc[r2] = "scrape")
  /\ model_out[r1] = model_out[r2]
  /\ lists[r1] = lists[r2]
  /\ attempts[r1] = attempts[r2]

\* C7: two runs that differ only in whether the notification was delivered
\* return the same value, and neither raises.
C7_MailFailureKeepsResult ==
  \A r1, r2 \in Runs :
    (pc[r1] = "done" /\ pc[r2] = "done" /\ SameRun(r1, r2)) =>
      /\ result[r1].kind = "returned"
      /\ result[r1] = result[r2]

C7_Witness ==
  \E r1, r2 \in Runs :
    /\ pc[r1] = "done" /\ pc[r2] = "done" /\ SameRun(r1, r2)
    /\ mail[r1] = "failed" /\ mail[r2] = "sent"
    /\ result[r1].value # <<>>

\* C8 (as claimed): the options of an inserted row are never in the order
\* the model produced.
C8_NeverModelOrder ==
  \A r \in Runs : \A j \in 1..Len(attempts[r]) :
    attempts[r][j].row.options # ModelOptions

\* C8 (amended): the options of every row handed to the insert are the
\* shuffled copy's options, a permutation of the sequence the model
\* produced, which may be that sequence itself.
C8_RowIsShuffledPermutation ==
  \A r \in Runs : \A j \in 1..Len(attempts[r]) :
    /\ IsPermutationOf(attempts[r][j].row.options, ModelOptions)
    /\ attempts[r][j].row.options = lists[r][shuffled[r][j].options]
    /\ Count(trace[r], "shuffle") = 1

C8_Witness ==
  \E r \in Runs : \E j1, j2 \in 1..Len(attempts[r]) :
    /\ attempts[r][j1].ok /\ attempts[r][j2].ok
    /\ attempts[r][j1].row.options # ModelOptions
    /\ attempts[r][j2].row.options = ModelOptions

Rank(step) ==
  CASE step = "scrape" -> 1
    [] step = "llm" -> 2
    [] step = "persist" -> 3
    [] step = "shuffle" -> 4
    [] step = "insert" -> 5
    [] OTHER -> 6

\* C9: in every run the steps happen in the order scrape, model
\* invocation, shuffle, row inserts, notification: an insert has the model
\* invocation and the shuffle before it, and nothing follows the
\* notification attempt.
C9_StepOrder ==
  \A r \in Runs :
    LET t == trace[r]
    IN  /\ \A i, j \in 1..Len(t) :
             i < j => /\ Rank(t[i]) <= Rank(t[j])
                      /\ (Rank(t[i]) = Rank(t[j]) => t[i] = "insert")
        /\ \A j \in 1..Len(t) :
             t[j] = "insert" => /\ \E i \in 1..(j - 1) : t[i] = "llm"
                                /\ \E i \in 1..(j - 1) : t[i] = "shuffle"
        /\ pc[r] = "done" => t[Len(t)] = "mail"

C9_Witness ==
  \E r \in Runs :
    /\ pc[r] = "done"
    /\ trace[r] = <<"scrape", "llm", "persist", "shuffle", "insert", "insert", "mail">>

\* C10: when the persistence call fails outside its per-row guard no row
\* is inserted, generation returns nothing and the run is reported Failed
\* with 0 questions although the model produced questions; when only row
\* inserts fail, all generated questions are returned and the run is
\* reported Success, however few rows were stored.
C10_PersistFailureNotContained ==
  \A r \in Runs :
    (pc[r] = "done" /\ WellFormed(r)) =>
      /\ settings.supabase = (gen_fail[r] = "none")
      /\ IF gen_fail[r] = "persist"
         THEN /\ attempts[r] = <<>>
              /\ result[r].value = <<>>
              /\ notice[r].status = "Failed"
              /\ notice[r].count = 0
         ELSE /\ Ids(result[r].value) = [i \in 1..model_out[r].k |-> i]
              /\ notice[r].status = "Success"
              /\ notice[r].count = model_out[r].k

C10_Witness ==
  \E r \in Runs :
    /\ pc[r] = "done"
    /\ WellFormed(r)
    /\ gen_fail[r] = "persist"
    /\ notice[r].status = "Failed"

====
